---- MODULE Spec2Model ----
(***************************************************************************)
(* Model of the air-infiltration module: AirFlowModel::new builds one      *)
(* resolver closure per space, AirFlowModel::march invokes them in space   *)
(* order against the shared SimulationState.                               *)
(*                                                                         *)
(* Float values are modelled as fixed-point integers counting millionths   *)
(* (FS units per 1.0); products and square roots truncate to that grid.    *)
(* Option<T> is a sequence: <<>> is None, <<v>> is Some(v).  A call that   *)
(* may panic (Option::expect on None) returns <<>> for the panic.          *)
(***************************************************************************)
EXTENDS Integers, Sequences, FiniteSets, TLC

VARIABLES spaces, header, state, infiltration_calcs, phase, last, inflight

vars == <<spaces, header, state, infiltration_calcs, phase, last, inflight>>

----------------------------------------------------------------------------
(* Bounds *)

MaxSpaces == 2

MaxStoreys == 4

MaxDesignRate == 3

----------------------------------------------------------------------------
(* Float arithmetic *)

FS == 1000000

F(n) == n * FS

None == <<>>

Some(v) == <<v>>

IsSome(o) == o # <<>>

Unwrap(o) == o[1]

Abs(x) == IF x < 0 THEN 0 - x ELSE x

\* |x| * |y| / FS, truncated, without leaving the 32-bit range in between
MulAbs(x, y) ==
    LET xh == x \div FS
        xl == x % FS
        yh == y \div FS
        yl == y % FS
        p  == (xl \div 1000) * yl
        q  == (xl % 1000) * yl
    IN  xh * yh * FS + xh * yl + xl * yh + ((p + (q \div 1000)) \div 1000)

Mul(x, y) ==
    IF (x < 0) = (y < 0) THEN MulAbs(Abs(x), Abs(y))
    ELSE 0 - MulAbs(Abs(x), Abs(y))

\* x / n for a divisor that is a whole number n (the code divides by 1000.)
DivWhole(x, n) == x \div n

RECURSIVE WholeRoot(_, _, _)
WholeRoot(x, lo, hi) ==
    IF lo >= hi THEN lo
    ELSE LET mid == (lo + hi + 1) \div 2
         IN  IF mid * mid <= x THEN WholeRoot(x, mid, hi)
             ELSE WholeRoot(x, lo, mid - 1)

RECURSIVE SqrtSearch(_, _, _)
SqrtSearch(x, lo, hi) ==
    IF lo >= hi THEN lo
    ELSE LET mid == (lo + hi + 1) \div 2
         IN  IF MulAbs(mid, mid) <= x THEN SqrtSearch(x, mid, hi)
             ELSE SqrtSearch(x, lo, mid - 1)

\* f64::sqrt: the largest grid value r whose square does not exceed x.  With
\* a the whole root of the count x, r lies in 1000a .. 1000a + 999.
Sqrt(x) ==
    LET a == WholeRoot(x, 0, IF x < 1024 THEN 32
                             ELSE IF x < 1048576 THEN 1024 ELSE 46340)
    IN  SqrtSearch(x, 1000 * a, 1000 * a + 999)

----------------------------------------------------------------------------
(* Collaborators: Space accessors over the SimulationState *)

\* Space::dry_bulb_temperature(state): None when the index was never set
dry_bulb_temperature(space, st) ==
    IF IsSome(space.dry_bulb_temperature_index)
    THEN Some(st[Unwrap(space.dry_bulb_temperature_index)])
    ELSE None

set_infiltration_temperature(space, st, v) ==
    [st EXCEPT ![Unwrap(space.infiltration_temperature_index)] = v]

set_infiltration_volume(space, st, v) ==
    [st EXCEPT ![Unwrap(space.infiltration_volume_index)] = v]

infiltration_volume(space, st) == st[Unwrap(space.infiltration_volume_index)]

infiltration_temperature(space, st) ==
    st[Unwrap(space.infiltration_temperature_index)]

----------------------------------------------------------------------------
(* eplus.rs: the physics functions.  Result <<>> is a panic. *)

\* variant: the temperature difference keeps its sign
design_flow_rate_signed(weather, space, st, design_rate, a, b, c, d) ==
    LET t_space == dry_bulb_temperature(space, st)
        t_out == weather.dry_bulb_temperature
        wind_speed == weather.wind_speed
    IN  IF ~IsSome(t_space) THEN <<>>
        ELSE IF ~IsSome(t_out) THEN <<>>
        ELSE IF ~IsSome(wind_speed) THEN <<>>
        ELSE LET ts == Unwrap(t_space)
                 to == Unwrap(t_out)
                 w  == Unwrap(wind_speed)
             IN  <<Mul(design_rate,
                       a + Mul(b, ts - to) + Mul(c, w) + Mul(Mul(d, w), w))>>

design_flow_rate(weather, space, st, design_rate, a, b, c, d) ==
    LET t_space == dry_bulb_temperature(space, st)
        t_out == weather.dry_bulb_temperature
        wind_speed == weather.wind_speed
    IN  IF ~IsSome(t_space) THEN <<>>
        ELSE IF ~IsSome(t_out) THEN <<>>
        ELSE IF ~IsSome(wind_speed) THEN <<>>
        ELSE LET ts == Unwrap(t_space)
                 to == Unwrap(t_out)
                 w  == Unwrap(wind_speed)
             IN  <<Mul(design_rate,
                       a + Mul(b, Abs(ts - to)) + Mul(c, w) + Mul(Mul(d, w), w))>>

blast_design_flow_rate(weather, space, st, design_rate) ==
    design_flow_rate(weather, space, st, design_rate, 606000, 36360, 117700, 0)

doe2_design_flow_rate(weather, space, st, design_rate) ==
    design_flow_rate(weather, space, st, design_rate, 0, 0, 224000, 0)

\* variant: the wind speed is required, as in design_flow_rate
effective_leakage_area_expecting(weather, space, st, area, cw, cs) ==
    LET outdoor_temp == weather.dry_bulb_temperature
        space_temp == dry_bulb_temperature(space, st)
    IN  IF ~IsSome(outdoor_temp) THEN <<>>
        ELSE IF ~IsSome(space_temp) THEN <<>>
        ELSE IF ~IsSome(weather.wind_speed) THEN <<>>
        ELSE LET delta_t == Abs(Unwrap(outdoor_temp) - Unwrap(space_temp))
                 ws == Unwrap(weather.wind_speed)
             IN  <<Mul(DivWhole(area, 1000),
                       Sqrt(Mul(cs, delta_t) + Mul(Mul(cw, ws), ws)))>>

effective_leakage_area(weather, space, st, area, cw, cs) ==
    LET outdoor_temp == weather.dry_bulb_temperature
        space_temp == dry_bulb_temperature(space, st)
    IN  IF ~IsSome(outdoor_temp) THEN <<>>
        ELSE IF ~IsSome(space_temp) THEN <<>>
        ELSE LET delta_t == Abs(Unwrap(outdoor_temp) - Unwrap(space_temp))
                 ws == IF IsSome(weather.wind_speed)
                       THEN Unwrap(weather.wind_speed) ELSE 0
             IN  <<Mul(DivWhole(area, 1000),
                       Sqrt(Mul(cs, delta_t) + Mul(Mul(cw, ws), ws)))>>

----------------------------------------------------------------------------
(* resolvers.rs: closures are records of their captures; Invoke runs one. *)
(* A run yields [st |-> state afterwards, panic |-> whether it panicked]. *)

\* variant: the volume is added to the slot instead of replacing it
WithVolumeAccumulating(space, st1, volume) ==
    IF volume = <<>> THEN [st |-> st1, panic |-> TRUE]
    ELSE [st |-> set_infiltration_volume(space, st1,
                     infiltration_volume(space, st1) + Unwrap(volume)),
          panic |-> FALSE]

WithVolume(space, st1, volume) ==
    IF volume = <<>> THEN [st |-> st1, panic |-> TRUE]
    ELSE [st |-> set_infiltration_volume(space, st1, Unwrap(volume)),
          panic |-> FALSE]

constant_run(space, v, weather, st) ==
    IF ~IsSome(weather.dry_bulb_temperature) THEN [st |-> st, panic |-> TRUE]
    ELSE LET st1 == set_infiltration_temperature(space, st,
                        Unwrap(weather.dry_bulb_temperature))
         IN  [st |-> set_infiltration_volume(space, st1, v), panic |-> FALSE]

blast_run(space, v, weather, st) ==
    IF ~IsSome(weather.dry_bulb_temperature) THEN [st |-> st, panic |-> TRUE]
    ELSE LET st1 == set_infiltration_temperature(space, st,
                        Unwrap(weather.dry_bulb_temperature))
         IN  WithVolume(space, st1, blast_design_flow_rate(weather, space, st1, v))

doe2_run(space, v, weather, st) ==
    IF ~IsSome(weather.dry_bulb_temperature) THEN [st |-> st, panic |-> TRUE]
    ELSE LET st1 == set_infiltration_temperature(space, st,
                        Unwrap(weather.dry_bulb_temperature))
         IN  WithVolume(space, st1, doe2_design_flow_rate(weather, space, st1, v))

\* the closure passes (a, b, c, d, v) where design_flow_rate expects
\* (design_rate, a, b, c, d)
design_flow_rate_run(space, a, b, c, d, v, weather, st) ==
    IF ~IsSome(weather.dry_bulb_temperature) THEN [st |-> st, panic |-> TRUE]
    ELSE LET st1 == set_infiltration_temperature(space, st,
                        Unwrap(weather.dry_bulb_temperature))
         IN  WithVolume(space, st1,
                        design_flow_rate(weather, space, st1, a, b, c, d, v))

\* variant: the two coefficients are handed over in each other's place
effective_air_leakage_run_swapped(space, al, cw, cs, weather, st) ==
    IF ~IsSome(weather.dry_bulb_temperature) THEN [st |-> st, panic |-> TRUE]
    ELSE LET st1 == set_infiltration_temperature(space, st,
                        Unwrap(weather.dry_bulb_temperature))
         IN  WithVolume(space, st1,
                        effective_leakage_area(weather, space, st1, al, cs, cw))

effective_air_leakage_run(space, al, cw, cs, weather, st) ==
    IF ~IsSome(weather.dry_bulb_temperature) THEN [st |-> st, panic |-> TRUE]
    ELSE LET st1 == set_infiltration_temperature(space, st,
                        Unwrap(weather.dry_bulb_temperature))
         IN  WithVolume(space, st1,
                        effective_leakage_area(weather, space, st1, al, cw, cs))

\* variant: the closure of a space without infiltration still expects the
\* outdoor temperature
noop_run_expecting(weather, st) ==
    [st |-> st, panic |-> ~IsSome(weather.dry_bulb_temperature)]

\* model.rs 97-99: the closure bound to a space without infiltration
noop_run(weather, st) == [st |-> st, panic |-> FALSE]

Ok(v) == [ok |-> TRUE, val |-> v]

Err(e) == [ok |-> FALSE, err |-> e]

\* variant: the unit is bound to the first space instead of its own
constant_resolver_first(i, v) == Ok([kind |-> "constant", space |-> 1, v |-> v])

constant_resolver(i, v) == Ok([kind |-> "constant", space |-> i, v |-> v])

blast_resolver(i, v) == Ok([kind |-> "blast", space |-> i, v |-> v])

doe2_resolver(i, v) == Ok([kind |-> "doe2", space |-> i, v |-> v])

design_flow_rate_resolver(i, a, b, c, d, v) ==
    Ok([kind |-> "design_flow_rate", space |-> i,
        a |-> a, b |-> b, c |-> c, d |-> d, v |-> v])

\* variant: more than 3 storeys is rejected instead of warned about
resolve_stack_coefficient_strict(building) ==
    IF IsSome(building.stack_coefficient)
    THEN Ok(Unwrap(building.stack_coefficient))
    ELSE IF IsSome(building.n_storeys)
    THEN LET n_storeys == Unwrap(building.n_storeys)
         IN  IF n_storeys = 0 THEN Err("0 storeys")
             ELSE IF n_storeys = 1 THEN Ok(145)
             ELSE IF n_storeys = 2 THEN Ok(290)
             ELSE IF n_storeys = 3 THEN Ok(435)
             ELSE Err("more than 3 storeys")
    ELSE Err("no stack_coefficient or n_storeys")

resolve_stack_coefficient(building) ==
    IF IsSome(building.stack_coefficient)
    THEN Ok(Unwrap(building.stack_coefficient))
    ELSE IF IsSome(building.n_storeys)
    THEN LET n_storeys == Unwrap(building.n_storeys)
         IN  IF n_storeys = 0 THEN Err("0 storeys")
             ELSE IF n_storeys = 1 THEN Ok(145)
             ELSE IF n_storeys = 2 THEN Ok(290)
             ELSE IF n_storeys = 3 THEN Ok(435)
             ELSE Ok(435)
    ELSE Err("no stack_coefficient or n_storeys")

WindTable(shelter, n_storeys) ==
    CASE shelter = "NoObstructions" ->
           IF n_storeys = 1 THEN 319 ELSE IF n_storeys = 2 THEN 420 ELSE 494
      [] shelter = "IsolatedRural" ->
           IF n_storeys = 1 THEN 246 ELSE IF n_storeys = 2 THEN 325 ELSE 382
      [] shelter = "Urban" ->
           IF n_storeys = 1 THEN 172 ELSE IF n_storeys = 2 THEN 231 ELSE 271
      [] shelter = "LargeLotUrban" ->
           IF n_storeys = 1 THEN 104 ELSE IF n_storeys = 2 THEN 137 ELSE 161
      [] shelter = "SmallLotUrban" ->
           IF n_storeys = 1 THEN 32 ELSE IF n_storeys = 2 THEN 42 ELSE 49

resolve_wind_coefficient(building) ==
    IF IsSome(building.wind_coefficient)
    THEN Ok(Unwrap(building.wind_coefficient))
    ELSE IF ~IsSome(building.n_storeys) THEN Err("no n_storeys")
    ELSE IF IsSome(building.shelter_class)
    THEN Ok(WindTable(Unwrap(building.shelter_class), Unwrap(building.n_storeys)))
    ELSE Err("no wind_coefficient or shelter_class")

\* variant: a space without a building gets a do-nothing unit
effective_air_leakage_resolver_defaulting(i, space, al) ==
    IF IsSome(space.building)
    THEN LET building == Unwrap(space.building)
             cs == resolve_stack_coefficient(building)
             cw == resolve_wind_coefficient(building)
         IN  IF ~cs.ok THEN cs
             ELSE IF ~cw.ok THEN cw
             ELSE Ok([kind |-> "effective_air_leakage", space |-> i,
                      al |-> al, cw |-> cw.val, cs |-> cs.val])
    ELSE Ok([kind |-> "noop"])

\* (model.rs:91 also passes the model, which the resolver does not take; the
\* building is read from the space)
effective_air_leakage_resolver(i, space, al) ==
    IF IsSome(space.building)
    THEN LET building == Unwrap(space.building)
             cs == resolve_stack_coefficient(building)
             cw == resolve_wind_coefficient(building)
         IN  IF ~cs.ok THEN cs
             ELSE IF ~cw.ok THEN cw
             ELSE Ok([kind |-> "effective_air_leakage", space |-> i,
                      al |-> al, cw |-> cw.val, cs |-> cs.val])
    ELSE Err("no building")

Invoke(unit, sps, weather, st) ==
    CASE unit.kind = "noop" -> noop_run(weather, st)
      [] unit.kind = "constant" ->
           constant_run(sps[unit.space], unit.v, weather, st)
      [] unit.kind = "blast" -> blast_run(sps[unit.space], unit.v, weather, st)
      [] unit.kind = "doe2" -> doe2_run(sps[unit.space], unit.v, weather, st)
      [] unit.kind = "design_flow_rate" ->
           design_flow_rate_run(sps[unit.space], unit.a, unit.b, unit.c,
                                unit.d, unit.v, weather, st)
      [] unit.kind = "effective_air_leakage" ->
           effective_air_leakage_run(sps[unit.space], unit.al, unit.cw,
                                     unit.cs, weather, st)

\* the first statements of every closure: expect the outdoor temperature and
\* write it to the space's infiltration-temperature slot
\* (wrote: the positions of the buffer the statements assign)
UnitTemperatureStep(unit, sps, weather, st) ==
    IF unit.kind = "noop" THEN [st |-> st, panic |-> FALSE, wrote |-> {}]
    ELSE IF ~IsSome(weather.dry_bulb_temperature)
    THEN [st |-> st, panic |-> TRUE, wrote |-> {}]
    ELSE [st |-> set_infiltration_temperature(sps[unit.space], st,
                     Unwrap(weather.dry_bulb_temperature)),
          panic |-> FALSE,
          wrote |-> {Unwrap(sps[unit.space].infiltration_temperature_index)}]

\* the remaining statements of every closure: compute the volume and write
\* it to the space's infiltration-volume slot
UnitVolumeStep(unit, sps, weather, st) ==
    IF unit.kind = "noop" THEN [st |-> st, panic |-> FALSE, wrote |-> {}]
    ELSE LET space == sps[unit.space]
             volume ==
                 CASE unit.kind = "constant" -> Some(unit.v)
                   [] unit.kind = "blast" ->
                        blast_design_flow_rate(weather, space, st, unit.v)
                   [] unit.kind = "doe2" ->
                        doe2_design_flow_rate(weather, space, st, unit.v)
                   [] unit.kind = "design_flow_rate" ->
                        design_flow_rate(weather, space, st, unit.a, unit.b,
                                         unit.c, unit.d, unit.v)
                   [] unit.kind = "effective_air_leakage" ->
                        effective_leakage_area(weather, space, st, unit.al,
                                               unit.cw, unit.cs)
             r == WithVolume(space, st, volume)
         IN  [st |-> r.st, panic |-> r.panic,
              wrote |-> IF r.panic THEN {}
                        ELSE {Unwrap(space.infiltration_volume_index)}]

----------------------------------------------------------------------------
(* model.rs: AirFlowModel::new and AirFlowModel::march *)

\* SimulationStateHeader::push: appends the element, returns its index
\* (positions are counted from 1 here, from 0 in the code)
push(hdr, element, value) == Append(hdr, [element |-> element, value |-> value])

\* model.rs 82-100: the unit bound to space i
ResolveSpace(i, space) ==
    IF IsSome(space.infiltration)
    THEN LET infiltration == Unwrap(space.infiltration)
         IN  CASE infiltration.kind = "Constant" ->
                    constant_resolver(i, infiltration.flow)
               [] infiltration.kind = "Blast" ->
                    blast_resolver(i, infiltration.flow)
               [] infiltration.kind = "Doe2" ->
                    doe2_resolver(i, infiltration.flow)
               [] infiltration.kind = "DesignFlowRate" ->
                    design_flow_rate_resolver(i, infiltration.a, infiltration.b,
                        infiltration.c, infiltration.d, infiltration.phi)
               [] infiltration.kind = "EffectiveAirLeakageArea" ->
                    effective_air_leakage_resolver(i, space, infiltration.area)
    ELSE Ok([kind |-> "noop"])

\* variant: the temperature slot is registered before the volume slot
RECURSIVE NewLoopTemperatureFirst(_, _, _, _)
NewLoopTemperatureFirst(i, hdr, sps, calcs) ==
    IF i > Len(sps)
    THEN [ok |-> TRUE, header |-> hdr, spaces |-> sps, calcs |-> calcs]
    ELSE LET hdr1 == push(hdr, <<"SpaceInfiltrationTemperature", i - 1>>, 0)
             inf_temp_index == Len(hdr1)
             hdr2 == push(hdr1, <<"SpaceInfiltrationVolume", i - 1>>, 0)
             inf_vol_index == Len(hdr2)
             sps1 == [sps EXCEPT
                        ![i].infiltration_volume_index = Some(inf_vol_index),
                        ![i].infiltration_temperature_index = Some(inf_temp_index)]
             infiltration_fn == ResolveSpace(i, sps1[i])
         IN  IF infiltration_fn.ok
             THEN NewLoopTemperatureFirst(i + 1, hdr2, sps1,
                                          Append(calcs, infiltration_fn.val))
             ELSE [ok |-> FALSE, header |-> hdr2, spaces |-> sps1, calcs |-> <<>>]

\* model.rs 66-103: the loop over the spaces, from space i on
RECURSIVE NewLoop(_, _, _, _)
NewLoop(i, hdr, sps, calcs) ==
    IF i > Len(sps)
    THEN [ok |-> TRUE, header |-> hdr, spaces |-> sps, calcs |-> calcs]
    ELSE LET initial_vol == 0
             initial_temp == 0
             hdr1 == push(hdr, <<"SpaceInfiltrationVolume", i - 1>>, initial_vol)
             inf_vol_index == Len(hdr1)
             hdr2 == push(hdr1, <<"SpaceInfiltrationTemperature", i - 1>>,
                          initial_temp)
             inf_temp_index == Len(hdr2)
             sps1 == [sps EXCEPT
                        ![i].infiltration_volume_index = Some(inf_vol_index),
                        ![i].infiltration_temperature_index = Some(inf_temp_index)]
             infiltration_fn == ResolveSpace(i, sps1[i])
         IN  IF infiltration_fn.ok
             THEN NewLoop(i + 1, hdr2, sps1, Append(calcs, infiltration_fn.val))
             ELSE [ok |-> FALSE, header |-> hdr2, spaces |-> sps1, calcs |-> <<>>]

\* variant: a unit that panics is skipped and the later units still run
RECURSIVE RunUnitsSkipping(_, _, _, _, _)
RunUnitsSkipping(calcs, sps, weather, st, k) ==
    IF k > Len(calcs)
    THEN [st |-> st, fault |-> 0, invoked |-> Len(calcs)]
    ELSE LET r == Invoke(calcs[k], sps, weather, st)
         IN  IF r.panic
             THEN LET rest == RunUnitsSkipping(calcs, sps, weather, r.st, k + 1)
                  IN  [st |-> rest.st, fault |-> k, invoked |-> rest.invoked]
             ELSE RunUnitsSkipping(calcs, sps, weather, r.st, k + 1)

\* model.rs 119-121: the loop over the units, from unit k on
RECURSIVE RunUnits(_, _, _, _, _)
RunUnits(calcs, sps, weather, st, k) ==
    IF k > Len(calcs)
    THEN [st |-> st, fault |-> 0, invoked |-> Len(calcs)]
    ELSE LET r == Invoke(calcs[k], sps, weather, st)
         IN  IF r.panic THEN [st |-> r.st, fault |-> k, invoked |-> k]
             ELSE RunUnits(calcs, sps, weather, r.st, k + 1)

NoWeather == [dry_bulb_temperature |-> None, wind_speed |-> None]

\* what the previous operation was and how it ended
\* (repeat: a march that directly follows a successful march with the same
\* sample)
Last(op, weather, result, fault, invoked, repeat) ==
    [op |-> op, weather |-> weather, result |-> result,
     fault |-> fault, invoked |-> invoked, repeat |-> repeat]

\* the march in progress when its units are not run in space order: the
\* sample, the buffer at its start, each unit's position (0 not started,
\* 1 temperature written, 2 finished), the units that assigned each position
\* of the buffer, the unit that ran first, and whether two units were ever
\* both half-way
InFlight(weather, start, pc, writers, first, mixed) ==
    [weather |-> weather, start |-> start, pc |-> pc, writers |-> writers,
     first |-> first, mixed |-> mixed]

NoMarch == InFlight(NoWeather, <<>>, <<>>, <<>>, 0, FALSE)

----------------------------------------------------------------------------
(* Inputs *)

ShelterClasses ==
    {"NoObstructions", "IsolatedRural", "Urban", "LargeLotUrban", "SmallLotUrban"}

AllBuildings ==
    [stack_coefficient : {None, Some(200)},
     wind_coefficient : {None, Some(300)},
     shelter_class : {None} \cup {Some(s) : s \in ShelterClasses},
     n_storeys : {None} \cup {Some(n) : n \in 0..MaxStoreys}]

Building(cs, cw, shelter, n) ==
    [stack_coefficient |-> cs, wind_coefficient |-> cw,
     shelter_class |-> shelter, n_storeys |-> n]

Constant(flow) == [kind |-> "Constant", flow |-> flow]

Blast(flow) == [kind |-> "Blast", flow |-> flow]

Doe2(flow) == [kind |-> "Doe2", flow |-> flow]

DesignFlowRate(a, b, c, d, phi) ==
    [kind |-> "DesignFlowRate", a |-> a, b |-> b, c |-> c, d |-> d, phi |-> phi]

EffectiveAirLeakageArea(area) == [kind |-> "EffectiveAirLeakageArea", area |-> area]

SpaceCfg(infiltration, building, dry) ==
    [infiltration |-> infiltration, building |-> building, dry_bulb |-> dry]

\* the spaces the host may add: every variant, with and without the data
\* the variant needs
SpaceCatalogue ==
    { SpaceCfg(None, None, Some(F(22))),
      SpaceCfg(Some(Constant(500000)), None, None),
      SpaceCfg(Some(Blast(F(1))), None, Some(F(22))),
      SpaceCfg(Some(Doe2(F(1))), None, Some(F(22))),
      SpaceCfg(Some(Doe2(F(1))), None, None),
      SpaceCfg(Some(DesignFlowRate(500000, 10000, 100000, 20000, F(2))),
               None, Some(F(22))),
      SpaceCfg(Some(EffectiveAirLeakageArea(F(500))),
               Some(Building(None, None, Some("NoObstructions"), Some(1))),
               Some(F(22))),
      SpaceCfg(Some(EffectiveAirLeakageArea(F(500))), None, Some(F(22))) }

LeakageCatalogue ==
    { SpaceCfg(Some(EffectiveAirLeakageArea(F(500))), Some(b), Some(F(22)))
        : b \in AllBuildings }

PhysicsCatalogue ==
    { SpaceCfg(Some(inf), None, Some(t))
        : inf \in {Blast(F(r)) : r \in 1..MaxDesignRate}
                  \cup {Doe2(F(r)) : r \in 1..MaxDesignRate},
          t \in {F(2), F(22)} }

IndoorTemperatures == {F(2), F(22)}

WeatherSamples ==
    [dry_bulb_temperature : {None, Some(F(-18)), Some(F(2))},
     wind_speed : {None, Some(F(6)), Some(4470000)}]

PhysicsSamples ==
    [dry_bulb_temperature : {Some(F(2)), Some(F(-38)), Some(F(42)), Some(F(-18))},
     wind_speed : {Some(3350000), Some(4470000), Some(F(6))}]

----------------------------------------------------------------------------
(* State machine *)

Init ==
    /\ spaces = <<>>
    /\ header = <<>>
    /\ state = <<>>
    /\ infiltration_calcs = <<>>
    /\ phase = "setup"
    /\ last = Last("none", NoWeather, "Ok", 0, 0, FALSE)
    /\ inflight = NoMarch

\* host: SimpleModel::add_space, after registering the space's dry-bulb slot
AddSpace(cfg) ==
    /\ phase = "setup"
    /\ LET i == Len(spaces) + 1
           hdr1 == IF IsSome(cfg.dry_bulb)
                   THEN push(header, <<"SpaceDryBulbTemperature", i - 1>>,
                             Unwrap(cfg.dry_bulb))
                   ELSE header
           space == [infiltration |-> cfg.infiltration,
                     building |-> cfg.building,
                     dry_bulb_temperature_index |->
                         IF IsSome(cfg.dry_bulb) THEN Some(Len(hdr1)) ELSE None,
                     infiltration_volume_index |-> None,
                     infiltration_temperature_index |-> None]
       IN  /\ spaces' = Append(spaces, space)
           /\ header' = hdr1
    /\ last' = Last("add_space", NoWeather, "Ok", 0, 0, FALSE)
    /\ UNCHANGED <<state, infiltration_calcs, phase, inflight>>

\* AirFlowModel::new
Construct ==
    /\ phase = "setup"
    /\ \E r \in {NewLoop(1, header, spaces, <<>>)} :
           /\ header' = r.header
           /\ spaces' = r.spaces
           /\ infiltration_calcs' = r.calcs
           /\ phase' = IF r.ok THEN "built" ELSE "failed"
           /\ last' = Last("new", NoWeather, IF r.ok THEN "Ok" ELSE "Err", 0, 0, FALSE)
    /\ UNCHANGED <<state, inflight>>

\* host: SimulationStateHeader::take_values
TakeValues ==
    /\ phase = "built"
    /\ state' = [k \in 1..Len(header) |-> header[k].value]
    /\ phase' = "ready"
    /\ last' = Last("take_values", NoWeather, "Ok", 0, 0, FALSE)
    /\ UNCHANGED <<spaces, header, infiltration_calcs, inflight>>

\* host: another model writes a space's dry-bulb temperature between steps
SetDryBulb(i, t) ==
    /\ phase = "ready"
    /\ i \in 1..Len(spaces)
    /\ IsSome(spaces[i].dry_bulb_temperature_index)
    /\ state[Unwrap(spaces[i].dry_bulb_temperature_index)] # t
    /\ state' = [state EXCEPT ![Unwrap(spaces[i].dry_bulb_temperature_index)] = t]
    /\ last' = Last("set_dry_bulb", NoWeather, "Ok", 0, 0, FALSE)
    /\ UNCHANGED <<spaces, header, infiltration_calcs, phase, inflight>>

\* AirFlowModel::march with the sample the weather source gives for the date
March(current_weather) ==
    /\ phase = "ready"
    /\ \E r \in {RunUnits(infiltration_calcs, spaces, current_weather, state, 1)} :
           /\ state' = r.st
           /\ phase' = IF r.fault = 0 THEN "ready" ELSE "panicked"
           /\ last' = Last("march", current_weather,
                           IF r.fault = 0 THEN "Ok" ELSE "panic",
                           r.fault, r.invoked,
                           /\ last.op = "march"
                           /\ last.result = "Ok"
                           /\ last.weather = current_weather)
    /\ UNCHANGED <<spaces, header, infiltration_calcs, inflight>>

AddCatalogueSpace ==
    \E cfg \in SpaceCatalogue : Len(spaces) < MaxSpaces /\ AddSpace(cfg)

HostSetsDryBulb ==
    \E i \in 1..MaxSpaces + 1, t \in IndoorTemperatures : SetDryBulb(i, t)

Advance == \E w \in WeatherSamples : March(w)

Next == AddCatalogueSpace \/ Construct \/ TakeValues \/ HostSetsDryBulb \/ Advance

Spec == Init /\ [][Next]_vars

\* one space with the leakage-area model, over every building
AddLeakageSpace ==
    \E cfg \in LeakageCatalogue : Len(spaces) < 1 /\ AddSpace(cfg)

NextBuilding == AddLeakageSpace \/ Construct

SpecBuilding == Init /\ [][NextBuilding]_vars

\* one Blast or Doe2 space under the reference conditions
AddPhysicsSpace ==
    \E cfg \in PhysicsCatalogue : Len(spaces) < 1 /\ AddSpace(cfg)

AdvancePhysics == \E w \in PhysicsSamples : March(w)

NextPhysics == AddPhysicsSpace \/ Construct \/ TakeValues \/ AdvancePhysics

SpecPhysics == Init /\ [][NextPhysics]_vars

\* one leakage-area space over every building, constructed and marched
NextLeakage ==
    AddLeakageSpace \/ Construct \/ TakeValues \/ HostSetsDryBulb \/ Advance

SpecLeakage == Init /\ [][NextLeakage]_vars

\* the spaces of the unordered march: every variant, one of them (Doe2
\* without a dry-bulb slot) faulting at every step
ParallelCatalogue ==
    { SpaceCfg(None, None, Some(F(22))),
      SpaceCfg(Some(Constant(500000)), None, None),
      SpaceCfg(Some(Blast(F(1))), None, Some(F(22))),
      SpaceCfg(Some(Doe2(F(1))), None, None),
      SpaceCfg(Some(DesignFlowRate(500000, 10000, 100000, 20000, F(2))),
               None, Some(F(22))),
      SpaceCfg(Some(EffectiveAirLeakageArea(F(500))),
               Some(Building(None, None, Some("NoObstructions"), Some(1))),
               Some(F(22))) }

ParallelSamples ==
    { [dry_bulb_temperature |-> Some(F(-18)), wind_speed |-> Some(4470000)],
      [dry_bulb_temperature |-> Some(F(2)), wind_speed |-> None],
      [dry_bulb_temperature |-> None, wind_speed |-> Some(F(6))] }

AddParallelSpace ==
    \E cfg \in ParallelCatalogue : Len(spaces) < MaxSpaces /\ AddSpace(cfg)

\* march 116: the sample is taken once, before any unit runs
BeginMarch(current_weather) ==
    /\ phase = "ready"
    /\ phase' = "marching"
    /\ inflight' = InFlight(current_weather, state,
                            [k \in 1..Len(infiltration_calcs) |-> 0],
                            [j \in 1..Len(state) |-> {}], 0, FALSE)
    /\ last' = Last("march_begin", current_weather, "Ok", 0, 0, FALSE)
    /\ UNCHANGED <<spaces, header, state, infiltration_calcs>>

\* one unit, any unit, runs its next statements on the shared buffer
UnitStep(k) ==
    /\ phase = "marching"
    /\ k \in 1..Len(infiltration_calcs)
    /\ inflight.pc[k] < 2
    /\ \E r \in {IF inflight.pc[k] = 0
                  THEN UnitTemperatureStep(infiltration_calcs[k], spaces,
                                           inflight.weather, state)
                  ELSE UnitVolumeStep(infiltration_calcs[k], spaces,
                                      inflight.weather, state)} :
           /\ state' = r.st
           /\ phase' = IF r.panic THEN "panicked" ELSE "marching"
           /\ inflight' =
                  [inflight EXCEPT
                     !.pc[k] = IF r.panic THEN @ ELSE @ + 1,
                     !.writers = [j \in 1..Len(state) |->
                                     IF j \in r.wrote THEN @[j] \cup {k}
                                     ELSE @[j]],
                     !.first = IF @ = 0 THEN k ELSE @,
                     !.mixed = \/ @
                               \/ /\ ~r.panic
                                  /\ inflight.pc[k] = 0
                                  /\ \E o \in 1..Len(infiltration_calcs) :
                                         o # k /\ inflight.pc[o] = 1]
           /\ last' = IF r.panic
                      THEN Last("march_unordered", inflight.weather, "panic",
                                k, 0, FALSE)
                      ELSE last
    /\ UNCHANGED <<spaces, header, infiltration_calcs>>

\* march 123: every unit has finished
EndMarch ==
    /\ phase = "marching"
    /\ \A k \in 1..Len(infiltration_calcs) : inflight.pc[k] = 2
    /\ phase' = "ready"
    /\ last' = Last("march_unordered", inflight.weather, "Ok", 0,
                    Len(infiltration_calcs), FALSE)
    /\ UNCHANGED <<spaces, header, state, infiltration_calcs, inflight>>

AdvanceUnordered == \E w \in ParallelSamples : BeginMarch(w)

AnyUnitSteps == \E k \in 1..MaxSpaces + 1 : UnitStep(k)

NextParallel ==
    \/ AddParallelSpace
    \/ Construct
    \/ TakeValues
    \/ AdvanceUnordered
    \/ AnyUnitSteps
    \/ EndMarch

SpecParallel == Init /\ [][NextParallel]_vars


----------------------------------------------------------------------------
(* Properties *)

Configured(i) == IsSome(spaces[i].infiltration)

Infil(i) == Unwrap(spaces[i].infiltration)

HasKind(i, kind) == Configured(i) /\ Infil(i).kind = kind

HasDryBulb(i) == IsSome(spaces[i].dry_bulb_temperature_index)

Indoor(i) == Unwrap(dry_bulb_temperature(spaces[i], state))

Outdoor == Unwrap(last.weather.dry_bulb_temperature)

Wind == Unwrap(last.weather.wind_speed)

Volume(i) == infiltration_volume(spaces[i], state)

Temperature(i) == infiltration_temperature(spaces[i], state)

AfterOkMarch == last.op = "march" /\ last.result = "Ok"

\* equal up to the rounding of the fixed-point grid (1/10000)
Tolerance == FS \div 10000

Near(x, y) == Abs(x - y) <= Tolerance

\* the design-flow-rate formula as documented:
\* design_rate * (a + b*|t_in - t_out| + c*wind + d*wind^2)
DocumentedFlow(design_rate, a, b, c, d, t_in, t_out, wind) ==
    Mul(design_rate,
        a + Mul(b, Abs(t_in - t_out)) + Mul(c, wind) + Mul(d, Mul(wind, wind)))

\* C1: after every successful march a DesignFlowRate {a, b, c, d, phi} space
\* holds phi * (a + b*|T_indoor - T_outdoor| + c*wind + d*wind^2) in its
\* infiltration-volume slot.
C1_DesignFlowRateVolume ==
    AfterOkMarch =>
        \A i \in 1..Len(spaces) :
            HasKind(i, "DesignFlowRate") =>
                Near(Volume(i),
                     DocumentedFlow(Infil(i).phi, Infil(i).a, Infil(i).b,
                         Infil(i).c, Infil(i).d, Indoor(i), Outdoor, Wind))

\* C2: a space without an infiltration specification keeps 0 in both of its
\* slots through every march, whatever the samples, and its unit never faults.
C2_UnconfiguredUntouched ==
    phase \in {"ready", "panicked"} =>
        \A i \in 1..Len(spaces) :
            ~Configured(i) =>
                /\ Volume(i) = 0
                /\ Temperature(i) = 0
                /\ last.fault # i

\* a march with a sample lacking both fields ran the no-op units to the end
C2_Witness ==
    /\ AfterOkMarch
    /\ last.weather = NoWeather
    /\ Len(spaces) >= 1
    /\ \A i \in 1..Len(spaces) : ~Configured(i) /\ Volume(i) = 0

\* C3: a march that directly follows a successful march with the same sample,
\* the dry-bulb slots untouched in between, leaves every slot as it was.
C3_Idempotent ==
    [][ (/\ last.op = "march"
         /\ last.result = "Ok"
         /\ last'.op = "march"
         /\ last'.result = "Ok"
         /\ last'.weather = last.weather) => state' = state ]_vars

\* the second of two equal marches, over a leakage-area space and a
\* design-flow-rate space with flows other than 0
C3_Witness ==
    /\ AfterOkMarch
    /\ last.repeat
    /\ \E i, j \in 1..Len(spaces) :
          /\ HasKind(i, "EffectiveAirLeakageArea") /\ Volume(i) > 0
          /\ HasKind(j, "DesignFlowRate") /\ Volume(j) > 0

LeakageWithoutBuilding(i) ==
    HasKind(i, "EffectiveAirLeakageArea") /\ ~IsSome(spaces[i].building)

\* C4: when some space is EffectiveAirLeakageArea without a building, new
\* returns an error and no model, wherever that space is and whatever the
\* other spaces are.
C4_NoBuildingFails ==
    (phase # "setup" /\ \E i \in 1..Len(spaces) : LeakageWithoutBuilding(i)) =>
        /\ phase = "failed"
        /\ last.result = "Err"
        /\ infiltration_calcs = <<>>

\* new failed on a second space without a building, after a resolvable first
C4_Witness ==
    /\ phase = "failed"
    /\ Len(spaces) = 2
    /\ HasKind(1, "Blast")
    /\ LeakageWithoutBuilding(2)


BuildingOf(i) == Unwrap(spaces[i].building)

\* C5: a building with n_storeys = 0 makes new fail for every
\* EffectiveAirLeakageArea space it owns, whatever its other attributes.
C5_ZeroStoreysFatal ==
    (/\ phase # "setup"
     /\ \E i \in 1..Len(spaces) :
           /\ HasKind(i, "EffectiveAirLeakageArea")
           /\ IsSome(spaces[i].building)
           /\ BuildingOf(i).n_storeys = Some(0)) =>
        phase = "failed"

\* the documented coefficients, in millionths: stack by storey bucket, wind
\* by shelter class and storey bucket (1, 2, 3 or more)
Bucket(n) == IF n >= 3 THEN 3 ELSE n

DocumentedStack == <<145, 290, 435>>

DocumentedWind ==
    [NoObstructions |-> <<319, 420, 494>>,
     IsolatedRural |-> <<246, 325, 382>>,
     Urban |-> <<172, 231, 271>>,
     LargeLotUrban |-> <<104, 137, 161>>,
     SmallLotUrban |-> <<32, 42, 49>>]

\* <<>> is the documented error, <<cs, cw>> the documented pair
DocumentedCoefficients(b) ==
    LET stack == IF IsSome(b.stack_coefficient) THEN b.stack_coefficient
                 ELSE IF ~IsSome(b.n_storeys) THEN <<>>
                 ELSE <<DocumentedStack[Bucket(Unwrap(b.n_storeys))]>>
        wind  == IF IsSome(b.wind_coefficient) THEN b.wind_coefficient
                 ELSE IF ~IsSome(b.n_storeys) \/ ~IsSome(b.shelter_class) THEN <<>>
                 ELSE <<DocumentedWind[Unwrap(b.shelter_class)]
                                      [Bucket(Unwrap(b.n_storeys))]>>
    IN  IF stack = <<>> \/ wind = <<>> THEN <<>> ELSE stack \o wind

\* a lookup that reads a storey count of 0 (the case C5 is about)
LooksUpZeroStoreys(b) ==
    /\ b.n_storeys = Some(0)
    /\ ~IsSome(b.stack_coefficient) \/ ~IsSome(b.wind_coefficient)

\* C6: for every building whose lookups read no storey count of 0, new
\* fails exactly when the documented function gives an error, and otherwise
\* the unit carries the documented stack and wind coefficients.
C6_CoefficientsAsDocumented ==
    phase # "setup" =>
        \A i \in 1..Len(spaces) :
            (/\ HasKind(i, "EffectiveAirLeakageArea")
             /\ IsSome(spaces[i].building)
             /\ ~LooksUpZeroStoreys(BuildingOf(i))) =>
                LET doc == DocumentedCoefficients(BuildingOf(i))
                IN  IF doc = <<>> THEN phase = "failed"
                    ELSE /\ phase = "built"
                         /\ infiltration_calcs[i].cs = doc[1]
                         /\ infiltration_calcs[i].cw = doc[2]

\* a building of more than 3 storeys resolved through both tables
C6_Witness ==
    /\ phase = "built"
    /\ Len(spaces) = 1
    /\ HasKind(1, "EffectiveAirLeakageArea")
    /\ BuildingOf(1) = Building(None, None, Some("Urban"), Some(4))
    /\ infiltration_calcs[1].cs = 435
    /\ infiltration_calcs[1].cw = 271


\* the leakage-area formula as documented:
\* (area / 1000) * sqrt(stack*|t_out - t_in| + wind_coeff*wind^2)
DocumentedLeakage(area, stack, wind_coeff, t_in, t_out, wind) ==
    Mul(DivWhole(area, 1000),
        Sqrt(Mul(stack, Abs(t_out - t_in)) + Mul(wind_coeff, Mul(wind, wind))))

WindOrZero == IF IsSome(last.weather.wind_speed) THEN Wind ELSE 0

\* the flow the model of space i documents for the last sample
ModelFlow(i) ==
    CASE Infil(i).kind = "Constant" -> Infil(i).flow
      [] Infil(i).kind = "Blast" ->
           DocumentedFlow(Infil(i).flow, 606000, 36360, 117700, 0,
                          Indoor(i), Outdoor, Wind)
      [] Infil(i).kind = "Doe2" ->
           DocumentedFlow(Infil(i).flow, 0, 0, 224000, 0, Indoor(i), Outdoor, Wind)
      [] Infil(i).kind = "DesignFlowRate" ->
           DocumentedFlow(Infil(i).phi, Infil(i).a, Infil(i).b, Infil(i).c,
                          Infil(i).d, Indoor(i), Outdoor, Wind)
      [] Infil(i).kind = "EffectiveAirLeakageArea" ->
           DocumentedLeakage(Infil(i).area, infiltration_calcs[i].cs,
                             infiltration_calcs[i].cw, Indoor(i), Outdoor, WindOrZero)

\* within 0.02 of ref, absolutely
Within002(x, ref) == Abs(x - ref) * 50 < FS

SingleDoe2At22 ==
    /\ phase = "ready"
    /\ Len(spaces) = 1
    /\ HasKind(1, "Doe2")
    /\ Infil(1).flow = F(1)
    /\ HasDryBulb(1)
    /\ Indoor(1) = F(22)

\* the end-to-end scenario of C7: 0 before the first march, about 1.34 at
\* -18 degrees and wind 6, about 1.0 at wind 4.47
Doe2Scenario ==
    SingleDoe2At22 =>
        /\ last.op = "take_values" => Volume(1) = 0
        /\ (AfterOkMarch /\ Outdoor = F(-18) /\ Wind = F(6)) =>
               Within002(Volume(1), 1340000)
        /\ (AfterOkMarch /\ Outdoor = F(-18) /\ Wind = 4470000) =>
               Within002(Volume(1), F(1))

\* C7: after every successful march each configured space holds the sample's
\* outdoor temperature in its temperature slot and its model's flow for the
\* sample and the current indoor temperature in its volume slot.
C7_SlotsHoldSampleAndFlow ==
    /\ AfterOkMarch =>
           \A i \in 1..Len(spaces) :
               Configured(i) =>
                   /\ Temperature(i) = Outdoor
                   /\ Near(Volume(i), ModelFlow(i))
    /\ Doe2Scenario

\* what remains of C7 apart from the DesignFlowRate spaces
C7_ExceptDesignFlowRate ==
    /\ AfterOkMarch =>
           \A i \in 1..Len(spaces) :
               Configured(i) =>
                   /\ Temperature(i) = Outdoor
                   /\ ~HasKind(i, "DesignFlowRate") => Near(Volume(i), ModelFlow(i))
    /\ Doe2Scenario

\* within 0.02 of ref, relative to ref
WithinRelative002(x, ref) == Abs(x - ref) * 50 <= ref

\* C8: blast_design_flow_rate gives r*(0.606 + 0.03636*|dT| + 0.1177*wind),
\* r*1.0 at dT=0, wind=3.35 and r*2.75 at dT=40, wind=6; doe2_design_flow_rate
\* gives r*0.224*wind, r*0.75 at wind=3.35, r*1.34 at wind=6 and r*1.0 at
\* wind=4.47, whatever the sign of the temperature difference.
C8_ReferenceFactors ==
    AfterOkMarch =>
        \A i \in 1..Len(spaces) :
            LET r == Infil(i).flow
                dT == Abs(Indoor(i) - Outdoor)
            IN  /\ HasKind(i, "Blast") =>
                      /\ Near(Volume(i),
                              Mul(r, 606000 + Mul(36360, dT) + Mul(117700, Wind)))
                      /\ (dT = 0 /\ Wind = 3350000) =>
                             WithinRelative002(Volume(i), r)
                      /\ (dT = F(40) /\ Wind = F(6)) =>
                             WithinRelative002(Volume(i), Mul(r, 2750000))
                /\ HasKind(i, "Doe2") =>
                      /\ Near(Volume(i), Mul(Mul(r, 224000), Wind))
                      /\ Wind = 3350000 =>
                             WithinRelative002(Volume(i), Mul(r, 750000))
                      /\ Wind = F(6) =>
                             WithinRelative002(Volume(i), Mul(r, 1340000))
                      /\ Wind = 4470000 =>
                             WithinRelative002(Volume(i), r)

\* Blast with design rate 2 under the winter condition, outdoor above indoor
C8_Witness ==
    /\ AfterOkMarch
    /\ Len(spaces) = 1
    /\ HasKind(1, "Blast")
    /\ Infil(1).flow = F(2)
    /\ Indoor(1) = F(2)
    /\ Outdoor = F(42)
    /\ Wind = F(6)
    /\ Volume(1) = 5533200

\* C9: without wind speed the leakage-area unit computes with wind 0, the
\* constant unit succeeds, and the Blast, Doe2 and DesignFlowRate units
\* fault; without outdoor temperature the unit of every variant faults.
C9_MissingFieldPolicy ==
    last.op = "march" =>
        \A k \in 1..last.invoked :
            /\ ~IsSome(last.weather.dry_bulb_temperature) =>
                   (Configured(k) => last.fault = k)
            /\ (/\ IsSome(last.weather.dry_bulb_temperature)
                /\ ~IsSome(last.weather.wind_speed)) =>
                   /\ (\/ HasKind(k, "Blast")
                       \/ HasKind(k, "Doe2")
                       \/ HasKind(k, "DesignFlowRate")) => last.fault = k
                   /\ HasKind(k, "Constant") =>
                          /\ last.fault # k
                          /\ Volume(k) = Infil(k).flow
                   /\ (HasKind(k, "EffectiveAirLeakageArea") /\ HasDryBulb(k)) =>
                          /\ last.fault # k
                          /\ Near(Volume(k),
                                  DocumentedLeakage(Infil(k).area,
                                      infiltration_calcs[k].cs,
                                      infiltration_calcs[k].cw,
                                      Indoor(k), Outdoor, 0))

\* a sample without wind speed, marched over a leakage-area space and a
\* constant space
C9_Witness ==
    /\ AfterOkMarch
    /\ IsSome(last.weather.dry_bulb_temperature)
    /\ ~IsSome(last.weather.wind_speed)
    /\ \E i, j \in 1..Len(spaces) :
          /\ HasKind(i, "EffectiveAirLeakageArea") /\ Volume(i) > 0
          /\ HasKind(j, "Constant") /\ Volume(j) > 0

SlotsKept(j) ==
    /\ state'[Unwrap(spaces[j].infiltration_volume_index)]
         = state[Unwrap(spaces[j].infiltration_volume_index)]
    /\ state'[Unwrap(spaces[j].infiltration_temperature_index)]
         = state[Unwrap(spaces[j].infiltration_temperature_index)]

\* C10: when a unit faults, the march does not succeed, the units of the
\* later spaces are not invoked (their slots stay as they were), and nothing
\* is retried afterwards.
C10_FaultFailsStep ==
    [][ /\ (last'.op = "march" /\ last'.fault # 0) =>
               /\ last'.result = "panic"
               /\ phase' = "panicked"
               /\ last'.invoked = last'.fault
               /\ \A j \in (last'.fault + 1)..Len(spaces) : SlotsKept(j)
        /\ phase = "panicked" => UNCHANGED vars ]_vars

\* the Blast unit of space 1 faulted for lack of wind speed; the constant
\* unit of space 2, which needs only the temperature, was not run
C10_Witness ==
    /\ phase = "panicked"
    /\ last.fault = 1
    /\ Len(spaces) = 2
    /\ HasKind(1, "Blast")
    /\ HasKind(2, "Constant")
    /\ IsSome(last.weather.dry_bulb_temperature)
    /\ Volume(2) = 0
    /\ Temperature(2) = 0


DryBulbSlots == Cardinality({i \in 1..Len(spaces) : HasDryBulb(i)})

UnitKindOf(variant) ==
    CASE variant = "Constant" -> "constant"
      [] variant = "Blast" -> "blast"
      [] variant = "Doe2" -> "doe2"
      [] variant = "DesignFlowRate" -> "design_flow_rate"
      [] variant = "EffectiveAirLeakageArea" -> "effective_air_leakage"

\* C12: after a successful new over n spaces the registry has grown by
\* exactly 2n slots, for space i a volume slot and then a temperature slot,
\* tagged with i, holding 0, their indices recorded on the space; the model
\* has n units, unit i bound to space i (a do-nothing unit for a space
\* without infiltration); march never changes the number of slots.
C12_SlotsAndUnits ==
    phase \in {"built", "ready", "panicked"} =>
        LET n == Len(spaces)
            base == DryBulbSlots
        IN  /\ Len(header) = base + 2 * n
            /\ Len(infiltration_calcs) = n
            /\ \A i \in 1..n :
                  /\ spaces[i].infiltration_volume_index = Some(base + 2 * i - 1)
                  /\ spaces[i].infiltration_temperature_index = Some(base + 2 * i)
                  /\ header[base + 2 * i - 1]
                       = [element |-> <<"SpaceInfiltrationVolume", i - 1>>,
                          value |-> 0]
                  /\ header[base + 2 * i]
                       = [element |-> <<"SpaceInfiltrationTemperature", i - 1>>,
                          value |-> 0]
                  /\ IF Configured(i)
                     THEN /\ infiltration_calcs[i].kind = UnitKindOf(Infil(i).kind)
                          /\ infiltration_calcs[i].space = i
                     ELSE infiltration_calcs[i].kind = "noop"
            /\ phase # "built" => Len(state) = Len(header)

\* a marched model of two spaces, the first without infiltration, the second
\* without a dry-bulb slot
C12_Witness ==
    /\ AfterOkMarch
    /\ Len(spaces) = 2
    /\ ~Configured(1)
    /\ HasKind(2, "Constant")
    /\ Len(header) = 5
    /\ Len(state) = 5
    /\ Volume(2) > 0

\* what the Coefficient Resolver returns for the building of space i
ResolvedStack(i) == resolve_stack_coefficient(BuildingOf(i)).val

ResolvedWind(i) == resolve_wind_coefficient(BuildingOf(i)).val

\* C13: after every successful march an EffectiveAirLeakageArea {area} space
\* holds (area/1000) * sqrt(stack*|T_outdoor - T_indoor| + wind_coeff*wind^2),
\* stack and wind_coeff being what the Coefficient Resolver returned for its
\* building; the unit carries these two values from new on and no march
\* changes them.
C13_LeakageWithCapturedCoefficients ==
    [][ /\ phase' \in {"built", "ready", "panicked"} =>
               \A i \in 1..Len(spaces') :
                   (Configured(i)' /\ Infil(i)'.kind = "EffectiveAirLeakageArea") =>
                       /\ infiltration_calcs'[i].cs = ResolvedStack(i)'
                       /\ infiltration_calcs'[i].cw = ResolvedWind(i)'
                       /\ infiltration_calcs'[i].al = Infil(i)'.area
                       /\ AfterOkMarch' =>
                              Near(Volume(i)',
                                   DocumentedLeakage(Infil(i)'.area,
                                       ResolvedStack(i)', ResolvedWind(i)',
                                       Indoor(i)', Outdoor', WindOrZero'))
        /\ phase \in {"ready", "panicked"} =>
               infiltration_calcs' = infiltration_calcs ]_vars

\* the second of two equal marches over a building whose coefficients are
\* both looked up, with wind
C13_Witness ==
    /\ AfterOkMarch
    /\ last.repeat
    /\ IsSome(last.weather.wind_speed)
    /\ Len(spaces) = 1
    /\ HasKind(1, "EffectiveAirLeakageArea")
    /\ BuildingOf(1) = Building(None, None, Some("IsolatedRural"), Some(2))
    /\ infiltration_calcs[1].cs = 290
    /\ infiltration_calcs[1].cw = 325
    /\ Volume(1) > 0

\* what the loop of march, in space order, makes of the buffer the march in
\* progress started with
SpaceOrder ==
    RunUnits(infiltration_calcs, spaces, inflight.weather, inflight.start, 1)

OwnSlots(k) ==
    {Unwrap(spaces[k].infiltration_volume_index),
     Unwrap(spaces[k].infiltration_temperature_index)}

\* every position of the buffer was assigned by the unit of the space that
\* owns it or by none, and a position no unit assigned holds what it held
WriteFootprint ==
    \A j \in 1..Len(state) :
        /\ inflight.writers[j] \subseteq
               {k \in 1..Len(spaces) : j \in OwnSlots(k)}
        /\ Cardinality(inflight.writers[j]) <= 1
        /\ inflight.writers[j] = {} => state[j] = inflight.start[j]

UnorderedMarch == last.op \in {"march_begin", "march_unordered"}

UnorderedEnded == last.op = "march_unordered"

====
